---- MODULE Spec2Model ----
(***************************************************************************)
(* Model of the NEO ingestion code: models.py (NearEarthObject,            *)
(* CloseApproach), extract.py (load_neos, load_approaches) and write.py    *)
(* (write_to_csv).                                                         *)
(*                                                                         *)
(* Python values are tagged records, so that None, the empty string, a     *)
(* boolean and a float are all distinct and comparable.  A float is kept   *)
(* in thousandths; a datetime is a record of its calendar fields.          *)
(***************************************************************************)
EXTENDS Integers, Sequences, FiniteSets, TLC

VARIABLES
    pc,         \* position of control: "main", inside a function, "done", "raised"
    fn,         \* the function control last entered
    handle,     \* the file handle of the running function: "unopened", "open", "closed"
    header,     \* load_neos: the fieldnames csv.DictReader took from the header row
    srcRows,    \* the rows consumed so far from the source file (history)
    neos,       \* load_neos: the local list `neos`
    cas,        \* load_approaches: the local list `cas`; in main: approaches built directly
    heap,       \* list objects by address: the `approaches` lists
    appended,   \* per NEO, how many approaches were appended through that NEO (history)
    ret,        \* what the finished call handed to its caller
    exc,        \* the exception that left the function, "none" otherwise
    out,        \* write_to_csv: the rows written to the output file
    contents    \* load_approaches: what json.load returned

vars == <<pc, fn, handle, header, srcRows, neos, cas, heap, appended, ret, exc, out,
          contents>>

----------------------------------------------------------------------------
(* Bounds *)

MaxNeoRows == 2
MaxCadRows == 2
MaxCas == 2
MaxAppends == 1

----------------------------------------------------------------------------
(* Python values *)

None == [t |-> "None"]
S(s) == [t |-> "str", v |-> s]
B(b) == [t |-> "bool", v |-> b]
F(n) == [t |-> "float", v |-> n]
NaN == [t |-> "nan"]

\* A call either yields a value or raises.
Ok(v) == [ok |-> TRUE, val |-> v]
Raise(e) == [ok |-> FALSE, exc |-> e]

\* Python truthiness (bool(x)), as used by `if self.name` and `if not self.hazardous`.
Truthy(x) ==
    CASE x.t = "None" -> FALSE
      [] x.t = "str" -> x.v # ""
      [] x.t = "bool" -> x.v
      [] x.t = "float" -> x.v # 0
      [] OTHER -> TRUE

\* str(x) for the values the constructors receive.
PyStr(x) ==
    CASE x.t = "None" -> "None"
      [] x.t = "str" -> x.v
      [] x.t = "bool" -> (IF x.v THEN "True" ELSE "False")
      [] OTHER -> "?"

\* The decimal texts the model's source files carry, with their value in thousandths.
NumericText == {"16.84", "0.4", "5.1", "0.25"}

Thousandths(s) ==
    CASE s = "16.84" -> 16840
      [] s = "0.4" -> 400
      [] s = "5.1" -> 5100
      [] s = "0.25" -> 250

\* float(x): a float passes through, numeric text converts, other text is a
\* ValueError, None is a TypeError.
PyFloat(x) ==
    CASE x.t = "float" -> Ok(x)
      [] x.t = "nan" -> Ok(x)
      [] x.t = "str" -> (IF x.v \in NumericText THEN Ok(F(Thousandths(x.v)))
                         ELSE Raise("ValueError"))
      [] OTHER -> Raise("TypeError")

----------------------------------------------------------------------------
(* helpers.py (not in src/): parse_y_n_bool *)

\* 'Y' is true, 'N' is false, no value is unknown, any other code is rejected.
parse_y_n_bool(x) ==
    CASE x = S("Y") -> Ok(B(TRUE))
      [] x = S("N") -> Ok(B(FALSE))
      [] x = S("") -> Ok(None)
      [] OTHER -> Raise("FormatError")

----------------------------------------------------------------------------
(* models.py: NearEarthObject *)

\* The list object that the default `approaches: list = []` evaluates to, once,
\* when the function is defined.
DefaultApproaches == 0

\* self.name = name if name is not None else None
CoerceName(name) == IF name # None THEN name ELSE None

\* self.diameter = float('nan') if diameter == '' else float(diameter)
CoerceDiameter(diameter) == IF diameter = S("") THEN Ok(NaN) ELSE PyFloat(diameter)

\* self.hazardous = parse_y_n_bool(hazardous) if hazardous is not None else None
CoerceHazardous(hazardous) ==
    IF hazardous # None THEN parse_y_n_bool(hazardous) ELSE Ok(None)

\* NearEarthObject.__init__: the object, or the exception a coercion raised.
NearEarthObject(designation, name, diameter, hazardous, approaches) ==
    LET d == CoerceDiameter(diameter)
        h == CoerceHazardous(hazardous)
    IN  IF ~d.ok THEN d
        ELSE IF ~h.ok THEN h
        ELSE Ok([designation |-> PyStr(designation),
                 name |-> CoerceName(name),
                 diameter |-> d.val,
                 hazardous |-> h.val,
                 approaches |-> approaches])

\* The mutant of fullname: tests `is not None` where the code tests truthiness.
fullname_is_not_none(neo) ==
    IF neo.name # None THEN neo.designation \o " " \o neo.name.v
    ELSE neo.designation

\* NearEarthObject.fullname
fullname(neo) ==
    IF Truthy(neo.name) THEN neo.designation \o " " \o neo.name.v
    ELSE neo.designation

\* The word __str__ picks for the hazard flag.
HazardWord(neo) == IF ~Truthy(neo.hazardous) THEN "not hazardous" ELSE "hazardous"

\* format(x, '.3f') of a diameter: three decimals, or 'nan'.
Pad3(n) == IF n < 10 THEN "00" \o ToString(n)
           ELSE IF n < 100 THEN "0" \o ToString(n) ELSE ToString(n)

Format3f(x) ==
    IF x.t = "nan" THEN "nan"
    ELSE ToString(x.v \div 1000) \o "." \o Pad3(x.v % 1000)

\* NearEarthObject.__str__
NeoStr(neo) ==
    fullname(neo) \o ", which has a diameter of " \o Format3f(neo.diameter)
        \o " and is " \o HazardWord(neo)

----------------------------------------------------------------------------
(* extract.py: load_neos *)

Columns == {"pdes", "name", "diameter", "pha"}

\* The header rows: every column named, or one of them missing.
Headers == {Columns} \cup {Columns \ {c} : c \in Columns}

\* A dict csv.DictReader yields under the full header.  It gives the text of a
\* field, '' for an empty field, and None (its restval) for a field that a
\* short row does not reach.
Row(pdes, name, diameter, pha) ==
    [c \in Columns |-> CASE c = "pdes" -> pdes [] c = "name" -> name
                         [] c = "diameter" -> diameter [] c = "pha" -> pha]

\* The data rows: every designation with every name and every hazard code, and
\* every diameter on one of them.
FullRows ==
    {Row(a, b, S("16.84"), e) :
        a \in {S("433"), S("1")}, b \in {S("Eros"), S(""), None},
        e \in {S("Y"), S("N"), S(""), S("X"), None}}
    \cup {Row(S("433"), S("Eros"), d, S("N")) : d \in {S(""), S("abc"), None}}

\* The dicts csv.DictReader can yield under header h: one key per fieldname.
Rows(h) == {[c \in h |-> r[c]] : r \in FullRows}

\* The mutant of ExitWith: the handle is left as it was (no scoped acquisition).
ExitWithLeak(f) == f

\* Leaving a `with open(...) as f` block, normally or by an exception, closes f.
ExitWith(f) == "closed"

\* NearEarthObject(row['pdes'], row['name'], row['diameter'], row['pha']):
\* the subscripts are evaluated first, and a missing key is a KeyError.
NeoFromRow(h, row) ==
    IF Columns \subseteq h
    THEN NearEarthObject(row["pdes"], row["name"], row["diameter"], row["pha"],
                         DefaultApproaches)
    ELSE Raise("KeyError")

\* load_neos is entered: neos = [], the file is opened and the header row read.
CallLoadNeos(h) ==
    /\ pc = "main"
    /\ cas = <<>>
    /\ pc' = "neos_loop"
    /\ fn' = "load_neos"
    /\ handle' = "open"
    /\ header' = h
    /\ neos' = <<>>
    /\ UNCHANGED <<srcRows, cas, heap, appended, ret, exc, out, contents>>

\* One iteration of `for row in reader`: the object is built and appended, or
\* the exception leaves the with block and the function.
LoadNeosRow(row) ==
    /\ pc = "neos_loop"
    /\ Len(neos) < MaxNeoRows
    /\ LET r == NeoFromRow(header, row)
       IN  IF r.ok
           THEN /\ neos' = Append(neos, r.val)
                /\ srcRows' = Append(srcRows, row)
                /\ UNCHANGED <<pc, handle, ret, exc>>
           ELSE /\ pc' = "raised"
                /\ exc' = r.exc
                /\ handle' = ExitWith(handle)
                /\ neos' = <<>>
                /\ srcRows' = <<>>
                /\ UNCHANGED ret
    /\ UNCHANGED <<fn, header, cas, heap, appended, out, contents>>

\* Reading the file fails while the reader iterates (the bytes do not decode).
LoadNeosDecodeError ==
    /\ pc = "neos_loop"
    /\ pc' = "raised"
    /\ exc' = "UnicodeDecodeError"
    /\ handle' = ExitWith(handle)
    /\ neos' = <<>>
    /\ srcRows' = <<>>
    /\ UNCHANGED <<fn, header, cas, heap, appended, ret, out, contents>>

\* The reader is exhausted: the with block is left and `return neos` runs.
LoadNeosReturn ==
    /\ pc = "neos_loop"
    /\ pc' = "done"
    /\ handle' = ExitWith(handle)
    /\ ret' = "neos"
    /\ appended' = [i \in 1..Len(neos) |-> 0]
    /\ UNCHANGED <<fn, header, srcRows, neos, cas, heap, exc, out, contents>>

\* The caller appends an approach to the list that neos[i].approaches refers to.
AppendApproach(i) ==
    /\ pc = "done"
    /\ fn = "load_neos"
    /\ i \in 1..Len(neos)
    /\ Len(heap[neos[i].approaches]) < MaxAppends
    /\ heap' = [heap EXCEPT ![neos[i].approaches] = Append(@, Len(@) + 1)]
    /\ appended' = [appended EXCEPT ![i] = @ + 1]
    /\ UNCHANGED <<pc, fn, handle, header, srcRows, neos, cas, ret, exc, out, contents>>

----------------------------------------------------------------------------
(* helpers.py (not in src/): cd_to_datetime, datetime_to_str *)

\* A calendar-date text 'YYYY-bbb-DD hh:mm', kept as its five fields.
TimeText(y, b, d, H, M) == [t |-> "timetext", y |-> y, b |-> b, d |-> d, H |-> H, M |-> M]

Pad2(n) == IF n < 10 THEN "0" \o ToString(n) ELSE ToString(n)

MonthNames == <<"Jan", "Feb", "Mar", "Apr", "May", "Jun",
                "Jul", "Aug", "Sep", "Oct", "Nov", "Dec">>

\* The number a field of decimal digits denotes within lo..hi, or -1.
Digits2(s, lo, hi) ==
    IF \E n \in lo..hi : Pad2(n) = s THEN CHOOSE n \in lo..hi : Pad2(n) = s ELSE -1

Digits4(s) ==
    IF \E n \in 1900..2100 : ToString(n) = s
    THEN CHOOSE n \in 1900..2100 : ToString(n) = s ELSE -1

MonthNumber(b) ==
    IF \E n \in 1..12 : MonthNames[n] = b
    THEN CHOOSE n \in 1..12 : MonthNames[n] = b ELSE -1

\* datetime.strptime(calendar_date, "%Y-%b-%d %H:%M"): a datetime whose seconds
\* are zero, or a ValueError.
cd_to_datetime(x) ==
    IF x.t # "timetext" THEN Raise("TypeError")
    ELSE LET y == Digits4(x.y)
             mo == MonthNumber(x.b)
             d == Digits2(x.d, 1, 31)
             H == Digits2(x.H, 0, 23)
             M == Digits2(x.M, 0, 59)
         IN  IF -1 \in {y, mo, d, H, M} THEN Raise("ValueError")
             ELSE Ok([t |-> "datetime", year |-> y, month |-> mo, day |-> d,
                      hour |-> H, minute |-> M, second |-> 0])

\* datetime.strftime(dt, "%Y-%m-%d %H:%M")
datetime_to_str(dt) ==
    ToString(dt.year) \o "-" \o Pad2(dt.month) \o "-" \o Pad2(dt.day)
        \o " " \o Pad2(dt.hour) \o ":" \o Pad2(dt.minute)

----------------------------------------------------------------------------
(* models.py: CloseApproach *)

\* CloseApproach.__init__.  `info` takes every keyword argument the signature
\* does not name, and is dropped.
CloseApproach(time, distance, velocity, neo, info) ==
    LET tm == cd_to_datetime(time)
        ds == PyFloat(distance)
        vl == PyFloat(velocity)
    IN  IF ~tm.ok THEN tm
        ELSE IF ~ds.ok THEN ds
        ELSE IF ~vl.ok THEN vl
        ELSE Ok([_designation |-> IF neo # None THEN S(fullname(neo)) ELSE None,
                 time |-> tm.val,
                 distance |-> ds.val,
                 velocity |-> vl.val,
                 neo |-> neo])

\* CloseApproach.time_str
time_str(ca) == datetime_to_str(ca.time)

----------------------------------------------------------------------------
(* extract.py: load_approaches *)

Filler == S("-")

TimeTexts == {TimeText("2020", "Jan", "01", "12", "00"),
              TimeText("1900", "Dec", "27", "01", "05"),
              TimeText("2020", "Foo", "01", "12", "00")}

\* The rows of the 'data' list: positions 0, 3, 4 and 7 vary; a row can be short.
CadRows ==
    {<<d, Filler, Filler, tm, ds, Filler, Filler, vl>> :
        d \in {S("433"), S("1")}, tm \in TimeTexts,
        ds \in {S("0.4"), F(400), S("x")}, vl \in {S("5.1")}}
    \cup {<<S("433"), Filler, Filler, TimeText("2020", "Jan", "01", "12", "00")>>}

\* What json.load can make of the file.
Documents == {"invalid", "nodata", "data"}

\* CloseApproach(time = row[3], distance = row[4], velocity = row[7],
\*               _designation = row[0]): a short row is an IndexError.  Python
\* counts positions from 0, a sequence here from 1.
ApproachFromRow(row) ==
    IF Len(row) < 8 THEN Raise("IndexError")
    ELSE CloseApproach(row[4], row[5], row[8], None,
                       [_designation |-> row[1]])

\* load_approaches is entered: cas = [] and the file is opened.
CallLoadApproaches ==
    /\ pc = "main"
    /\ cas = <<>>
    /\ pc' = "cad_load"
    /\ fn' = "load_approaches"
    /\ handle' = "open"
    /\ cas' = <<>>
    /\ UNCHANGED <<header, srcRows, neos, heap, appended, ret, exc, out, contents>>

\* contents = json.load(f), the only statement of the with block.
CadJsonLoad(doc) ==
    /\ pc = "cad_load"
    /\ handle' = ExitWith(handle)
    /\ IF doc = "invalid"
       THEN /\ pc' = "raised"
            /\ exc' = "JSONDecodeError"
            /\ UNCHANGED contents
       ELSE /\ pc' = "cad_loop"
            /\ contents' = doc
            /\ UNCHANGED exc
    /\ UNCHANGED <<fn, header, srcRows, neos, cas, heap, appended, ret, out>>

\* contents['data'] when the document has no 'data' key.
CadNoData ==
    /\ pc = "cad_loop"
    /\ contents = "nodata"
    /\ pc' = "raised"
    /\ exc' = "KeyError"
    /\ UNCHANGED <<fn, handle, header, srcRows, neos, cas, heap, appended, ret, out,
                   contents>>

\* One iteration of `for row in contents['data']`.
CadRow(row) ==
    /\ pc = "cad_loop"
    /\ contents = "data"
    /\ Len(cas) < MaxCadRows
    /\ LET r == ApproachFromRow(row)
       IN  IF r.ok
           THEN /\ cas' = Append(cas, r.val)
                /\ srcRows' = Append(srcRows, row)
                /\ UNCHANGED <<pc, exc>>
           ELSE /\ pc' = "raised"
                /\ exc' = r.exc
                /\ cas' = <<>>
                /\ srcRows' = <<>>
    /\ UNCHANGED <<fn, handle, header, neos, heap, appended, ret, out, contents>>

\* The rows are exhausted: `return cas`.
CadReturn ==
    /\ pc = "cad_loop"
    /\ contents = "data"
    /\ pc' = "done"
    /\ ret' = "cas"
    /\ UNCHANGED <<fn, handle, header, srcRows, neos, cas, heap, appended, exc, out,
                   contents>>

----------------------------------------------------------------------------
(* models.py: the constructors called directly *)

\* The objects a caller passes as `neo`: none, or one NearEarthObject built.
NeoArguments ==
    {None} \cup
    {NearEarthObject(S("433"), n, S(""), h, DefaultApproaches).val :
        n \in {S("Eros"), S(""), None}, h \in {S("Y"), None}}

\* CloseApproach(time, distance, velocity, neo) called from the main program.
ConstructApproach(time, distance, velocity, neo) ==
    /\ pc = "main"
    /\ Len(cas) < MaxCas
    /\ LET r == CloseApproach(time, distance, velocity, neo, << >>)
       IN  IF r.ok
           THEN /\ cas' = Append(cas, r.val)
                /\ UNCHANGED <<pc, fn, exc>>
           ELSE /\ pc' = "raised"
                /\ fn' = "CloseApproach"
                /\ exc' = r.exc
                /\ UNCHANGED cas
    /\ UNCHANGED <<handle, header, srcRows, neos, heap, appended, ret, out, contents>>

----------------------------------------------------------------------------
(* write.py: write_to_csv *)

fieldnames == <<"datetime_utc", "distance_au", "velocity_km_s",
                "designation", "name", "diameter_km", "potentially_hazardous">>

\* repr of a float kept in thousandths: trailing zeros are dropped, one
\* decimal is kept.
FloatRepr(n) ==
    LET w == ToString(n \div 1000)
        f == n % 1000
    IN  IF f % 100 = 0 THEN w \o "." \o ToString(f \div 100)
        ELSE IF f % 10 = 0 THEN w \o "." \o Pad2(f \div 10)
        ELSE w \o "." \o Pad3(f)

\* str(datetime): ISO form with a space, seconds always present.
DatetimeStr(dt) ==
    ToString(dt.year) \o "-" \o Pad2(dt.month) \o "-" \o Pad2(dt.day)
        \o " " \o Pad2(dt.hour) \o ":" \o Pad2(dt.minute) \o ":" \o Pad2(dt.second)

\* The text csv.writer puts in a field: None is the empty field, a string is
\* itself, anything else goes through str().
CsvField(x) ==
    CASE x.t = "None" -> ""
      [] x.t = "str" -> x.v
      [] x.t = "bool" -> PyStr(x)
      [] x.t = "float" -> FloatRepr(x.v)
      [] x.t = "nan" -> "nan"
      [] x.t = "datetime" -> DatetimeStr(x)

\* The list given to writer.writerow for approach ca.
CsvRowOf(ca) ==
    <<CsvField(ca.time), CsvField(ca.distance), CsvField(ca.velocity),
      CsvField(ca._designation), CsvField(ca.neo.name), CsvField(ca.neo.diameter),
      CsvField(ca.neo.hazardous)>>

\* write_to_csv(results, filename) is entered with results = cas: the file is
\* opened and the header row written.
CallWriteToCsv ==
    /\ pc = "main"
    /\ pc' = "csv_loop"
    /\ fn' = "write_to_csv"
    /\ handle' = "open"
    /\ out' = <<fieldnames>>
    /\ UNCHANGED <<header, srcRows, neos, cas, heap, appended, ret, exc, contents>>

\* One iteration of `for ca in results`: ca.neo.name on an approach without
\* an object is an AttributeError.
CsvRow ==
    /\ pc = "csv_loop"
    /\ Len(out) <= Len(cas)
    /\ LET ca == cas[Len(out)]
       IN  IF ca.neo = None
           THEN /\ pc' = "raised"
                /\ exc' = "AttributeError"
                /\ handle' = ExitWith(handle)
                /\ UNCHANGED out
           ELSE /\ out' = Append(out, CsvRowOf(ca))
                /\ UNCHANGED <<pc, exc, handle>>
    /\ UNCHANGED <<fn, header, srcRows, neos, cas, heap, appended, ret, contents>>

\* The results are exhausted: the with block is left and the function returns.
CsvReturn ==
    /\ pc = "csv_loop"
    /\ Len(out) = Len(cas) + 1
    /\ pc' = "done"
    /\ handle' = ExitWith(handle)
    /\ ret' = "None"
    /\ UNCHANGED <<fn, header, srcRows, neos, cas, heap, appended, exc, out, contents>>

----------------------------------------------------------------------------
(* The program *)

Init ==
    /\ pc = "main"
    /\ fn = "main"
    /\ handle = "unopened"
    /\ header = {}
    /\ srcRows = <<>>
    /\ neos = <<>>
    /\ cas = <<>>
    /\ heap = [a \in {DefaultApproaches} |-> <<>>]
    /\ appended = <<>>
    /\ ret = "none"
    /\ exc = "none"
    /\ out = <<>>
    /\ contents = "unread"

Next ==
    \/ \E h \in Headers : CallLoadNeos(h)
    \/ \E row \in Rows(header) : LoadNeosRow(row)
    \/ LoadNeosDecodeError
    \/ LoadNeosReturn
    \/ \E i \in 1..MaxNeoRows : AppendApproach(i)
    \/ CallLoadApproaches
    \/ \E doc \in Documents : CadJsonLoad(doc)
    \/ CadNoData
    \/ \E row \in CadRows : CadRow(row)
    \/ CadReturn
    \/ \E tm \in TimeTexts, ds \in {S("0.4"), S("x")}, vl \in {S("5.1"), F(250)},
          neo \in NeoArguments : ConstructApproach(tm, ds, vl, neo)
    \/ CallWriteToCsv
    \/ CsvRow
    \/ CsvReturn

Spec == Init /\ [][Next]_vars

----------------------------------------------------------------------------
(* The claims *)

\* The objects load_neos has built, with the rows they were built from.
Loaded == IF fn = "load_neos" THEN 1..Len(neos) ELSE {}

\* C1: every object load_neos builds has a list of its own: the list of
\* neos[i] holds exactly the approaches appended through neos[i], so appending
\* to one object leaves every other object's list as it was.
C1_FreshApproaches ==
    (pc = "done" /\ fn = "load_neos") =>
        /\ \A i \in 1..Len(neos) : Len(heap[neos[i].approaches]) = appended[i]
        /\ \A i, j \in 1..Len(neos) :
               i # j => neos[i].approaches # neos[j].approaches

\* C2: the approach load_approaches builds for a row keeps the row's
\* position-0 identifier as _designation, while neo is still unset.
C2_DesignationCaptured ==
    fn = "load_approaches" =>
        \A i \in 1..Len(cas) :
            /\ cas[i]._designation = srcRows[i][1]
            /\ cas[i].neo = None

\* C3: a collection load_neos returns holds no two objects with the same
\* designation; a file with two rows of one designation is rejected.
C3_NoDuplicateDesignation ==
    (pc = "done" /\ fn = "load_neos") =>
        /\ \A i, j \in 1..Len(neos) :
               i # j => neos[i].designation # neos[j].designation
        /\ \A i, j \in 1..Len(srcRows) :
               i # j => srcRows[i]["pdes"] # srcRows[j]["pdes"]

\* C4: a row whose name is empty or absent gives an object whose name is
\* None; no stored name is the empty string.
C4_EmptyNameIsNone ==
    \A i \in Loaded :
        /\ srcRows[i]["name"] \in {S(""), None} => neos[i].name = None
        /\ neos[i].name # S("")

\* C5: hazard code 'Y' is stored as true, 'N' as false, an empty or absent
\* code as None; and an object whose flag is None never reads, in its string
\* form, as one whose flag is false.
C5_HazardTriState ==
    \A i \in Loaded :
        LET code == srcRows[i]["pha"]
            neo == neos[i]
        IN  /\ code = S("Y") => neo.hazardous = B(TRUE)
            /\ code = S("N") => neo.hazardous = B(FALSE)
            /\ code \in {S(""), None} => neo.hazardous = None
            /\ neo.hazardous = None =>
                   /\ HazardWord(neo) # "not hazardous"
                   /\ NeoStr(neo) # NeoStr([neo EXCEPT !.hazardous = B(FALSE)])

\* C6: an approach that holds an object has that object's designation as its
\* _designation.
C6_LinkedDesignation ==
    \A i \in 1..Len(cas) :
        cas[i].neo # None => cas[i]._designation = S(cas[i].neo.designation)

\* C7: when the header lacks the primary-designation column, load_neos is
\* left by an exception and hands back no collection, however many data rows
\* the file has (none included).
C7_MissingDesignationColumn ==
    (fn = "load_neos" /\ "pdes" \notin header /\ pc \in {"done", "raised"}) =>
        /\ pc = "raised"
        /\ ret = "none"

\* C8: the datetime_utc field of every row write_to_csv writes is the
\* approach's time_str, which carries no seconds.
C8_CsvTimestamp ==
    fn = "write_to_csv" =>
        \A k \in 2..Len(out) : out[k][1] = time_str(cas[k - 1])

\* C9: fullname is the designation, a space and the name when the row carried
\* a real name, and the designation alone when the name was empty or absent.
C9_Fullname ==
    \A i \in Loaded :
        LET row == srcRows[i]
        IN  fullname(neos[i]) =
                IF row["name"] \in {S(""), None} THEN PyStr(row["pdes"])
                ELSE PyStr(row["pdes"]) \o " " \o row["name"].v

\* C9 witness: load_neos has returned an object built from an empty name,
\* whose fullname is its designation, and one built from a real name.
C9_Witness ==
    /\ pc = "done"
    /\ fn = "load_neos"
    /\ \E i, j \in 1..Len(neos) :
           /\ srcRows[i]["name"] = S("")
           /\ fullname(neos[i]) = "433"
           /\ srcRows[j]["name"] = S("Eros")
           /\ fullname(neos[j]) = "1 Eros"

\* C10: when control has left load_neos or load_approaches, by return or by
\* an exception, the file handle is closed; after an exception the caller
\* holds no collection.
C10_HandleReleased ==
    (fn \in {"load_neos", "load_approaches"} /\ pc \in {"done", "raised"}) =>
        /\ handle = "closed"
        /\ pc = "raised" => ret = "none"
        /\ pc = "done" => ret \in {"neos", "cas"}

\* C10 witness: load_neos was left by the ValueError of a row's diameter, with
\* the handle closed and nothing returned.
C10_Witness ==
    /\ fn = "load_neos"
    /\ pc = "raised"
    /\ exc = "ValueError"
    /\ handle = "closed"
    /\ ret = "none"

====
